---- MODULE Spec2Model ----
(***************************************************************************)
(* Model of booster's policy-gated source store (store/store.go): the      *)
(* SourceStore, its policy list, the shadow list of sources under policy   *)
(* and the protected store it forwards to.                                 *)
(*                                                                         *)
(* Spec runs the calls one at a time; SpecConc runs two workers' calls     *)
(* statement by statement, as the lock-free SourceStore allows.            *)
(*                                                                         *)
(* A core.Source is identified by its Name(); a *Policy is represented by  *)
(* its ID and its Func (Reason and Code never influence the store).        *)
(* Metrics are not modelled.                                               *)
(***************************************************************************)
EXTENDS Integers, Sequences, FiniteSets, TLC

\* ---------------------------------------------------------------- bounds
MaxPolicies == 2        \* longest policy list explored
MaxUnder == 2           \* longest underPolicy list explored
MaxArgs == 2            \* most sources handed to one Put/Del call
MaxConns == 3           \* most connections one Interface is handed
MaxRing == 3            \* most positions of a Ring
MaxGets == 4            \* longest run of Get calls followed

\* ------------------------------------------------------------- universes
SourceNames == {"A", "B"}
RingNames == SourceNames \cup {"C"}   \* sources put into rings
PolicyIDs == {"x", "y"}

NoName == ""            \* zero value of a Go string
NilSource == "<nil>"    \* nil core.Source

\* store.Policy: Func[name] is the result of p.Func(name)
Policy(id, func) == [ID |-> id, Func |-> func]

\* a Func that returns false exactly for the names in S
FalseFor(S) == [n \in SourceNames |-> n \notin S]

\* the policies handed to AddPolicy: two share the id "x", two the id "y"
PolicyPool ==
    { Policy("x", FalseFor({"A"})), Policy("x", FalseFor({"B"})),
      Policy("y", FalseFor({"A"})), Policy("y", FalseFor({"A", "B"})) }
NilPolicy == [ID |-> "<nil>", Func |-> [n \in SourceNames |-> FALSE]]

\* argument lists of the variadic Put/Del
ArgLists == UNION {[1..n -> SourceNames] : n \in 1..MaxArgs}

Range(s) == {s[i] : i \in 1..Len(s)}
MinOf(S) == CHOOSE x \in S : \A y \in S : x <= y

\* ------------------------------------------------- protected store (Store)
\* Put: membership is by name, a duplicate Put is idempotent; insertion order
RECURSIVE StorePut(_, _)
StorePut(prot, srcs) ==
    IF srcs = <<>> THEN prot
    ELSE StorePut(IF Head(srcs) \in Range(prot) THEN prot
                  ELSE Append(prot, Head(srcs)), Tail(srcs))

StoreDel(prot, srcs) == SelectSeq(prot, LAMBDA s : s \notin Range(srcs))

StoreLen(prot) == Len(prot)

\* ------------------------------------------------------------ SourceStore
DummySource(internal, name, policy, blocked) ==
    [internal |-> internal, Name |-> name, Policy |-> policy, Blocked |-> blocked]

New == [protected |-> <<>>, Policies |-> <<>>, underPolicy |-> <<>>]

\* a check that reports the last policy whose Func is false
PutCheckLast(pols, name) ==
    LET rej == {i \in 1..Len(pols) : ~pols[i].Func[name]}
    IN  IF rej = {} THEN [p |-> NilPolicy, ok |-> TRUE]
        ELSE [p |-> pols[CHOOSE i \in rej : \A j \in rej : j <= i], ok |-> FALSE]

\* the closure f of Put: first policy whose Func is false, or (nil, true)
PutCheck(pols, name) ==
    LET rej == {i \in 1..Len(pols) : ~pols[i].Func[name]}
    IN  IF rej = {} THEN [p |-> NilPolicy, ok |-> TRUE]
        ELSE [p |-> pols[MinOf(rej)], ok |-> FALSE]

SSPut(ss, sources) ==
    LET acc == SelectSeq(sources, LAMBDA v : PutCheck(ss.Policies, v).ok)
        rej == SelectSeq(sources, LAMBDA v : ~PutCheck(ss.Policies, v).ok)
        up  == [i \in 1..Len(rej) |->
                  DummySource(rej[i], rej[i], PutCheck(ss.Policies, rej[i]).p, TRUE)]
    IN  [protected   |-> StorePut(ss.protected, acc),
         Policies    |-> ss.Policies,
         underPolicy |-> ss.underPolicy \o up]

\* the closure f of Del: keep the entry unless an argument has its Name
DelKeeps(sources, e) == \A i \in 1..Len(sources) : sources[i] # e.Name

SSDel(ss, sources) ==
    [protected   |-> StoreDel(ss.protected, sources),
     Policies    |-> ss.Policies,
     underPolicy |-> SelectSeq(ss.underPolicy, LAMBDA e : DelKeeps(sources, e))]

\* a sweep that collects the sources for which Func is true
AddPolicySweepTrue(prot, p) == SelectSeq(prot, LAMBDA s : p.Func[s])

\* the sources of the protected store that AddPolicy collects in acc
AddPolicySweep(prot, p) == SelectSeq(prot, LAMBDA s : ~p.Func[s])

\* the trace AddPolicy keeps of an evicted source (Name is left unset)
AddPolicyTrace(v, p) == DummySource(v, NoName, p, TRUE)

SSAddPolicy(ss, p) ==
    LET acc == AddPolicySweep(ss.protected, p)
    IN  [protected   |-> StoreDel(ss.protected, acc),
         Policies    |-> Append(ss.Policies, p),
         underPolicy |-> ss.underPolicy \o
                           [i \in 1..Len(acc) |-> AddPolicyTrace(acc[i], p)]]

\* a DelPolicy that forgets the freed sources
DelPolicyDrop(prot, freed) == prot

\* what DelPolicy does with the entries tagged with the removed id:
\* ss.protected.Put(v.internal) for each of them
DelPolicyRestore(prot, freed) ==
    StorePut(prot, [i \in 1..Len(freed) |-> freed[i].internal])

\* a DelPolicy that removes the last policy with the id
SSDelPolicyLast(ss, id) ==
    LET hit == {i \in 1..Len(ss.Policies) : ss.Policies[i].ID = id}
    IN  IF hit = {} THEN ss
        ELSE LET j     == CHOOSE i \in hit : \A k \in hit : k <= i
                 pols  == SubSeq(ss.Policies, 1, j - 1)
                            \o SubSeq(ss.Policies, j + 1, Len(ss.Policies))
                 freed == SelectSeq(ss.underPolicy, LAMBDA v : v.Policy.ID = id)
             IN  [protected   |-> DelPolicyRestore(ss.protected, freed),
                  Policies    |-> pols,
                  underPolicy |-> SelectSeq(ss.underPolicy,
                                            LAMBDA v : v.Policy.ID # id)]

SSDelPolicy(ss, id) ==
    LET hit == {i \in 1..Len(ss.Policies) : ss.Policies[i].ID = id}
    IN  IF hit = {} THEN ss
        ELSE LET j     == MinOf(hit)
                 pols  == SubSeq(ss.Policies, 1, j - 1)
                            \o SubSeq(ss.Policies, j + 1, Len(ss.Policies))
                 freed == SelectSeq(ss.underPolicy, LAMBDA v : v.Policy.ID = id)
             IN  [protected   |-> DelPolicyRestore(ss.protected, freed),
                  Policies    |-> pols,
                  underPolicy |-> SelectSeq(ss.underPolicy,
                                            LAMBDA v : v.Policy.ID # id)]

GetAccepted(ss) == ss.protected

GetSourcesSnapshot(ss) ==
    [i \in 1..StoreLen(ss.protected) |->
        DummySource(NilSource, ss.protected[i], NilPolicy, FALSE)]
    \o [i \in 1..Len(ss.underPolicy) |->
        DummySource(NilSource, ss.underPolicy[i].Name,
                    ss.underPolicy[i].Policy, ss.underPolicy[i].Blocked)]

\* Go's builtin copy: min(len(dst), len(src)) elements are copied
GoCopy(dst, src) ==
    [i \in 1..Len(dst) |-> IF i <= Len(src) THEN src[i] ELSE dst[i]]

\* make([]*Policy, 0, n): length 0, capacity n
MakeLen0 == <<>>

GetPoliciesSnapshot(ss) == GoCopy(MakeLen0, ss.Policies)

\* ------------------------------------------------------- policies (Accept)
Targets == {"t1", "t2"}

\* HistoryQueryFunc: per target, the bound source id and whether one is found
NoBinding == [hid |-> NoName, ok |-> FALSE]
Bound(id) == [hid |-> id, ok |-> TRUE]
Histories == [Targets -> {NoBinding} \cup {Bound(id) : id \in SourceNames}]

NewBlockPolicy(sourceID) ==
    [kind |-> "block", Name |-> "block_" \o sourceID,
     SourceID |-> sourceID, Target |-> NoName]

NewReservedPolicy(sourceID, target) ==
    [kind |-> "reserve", Name |-> "reserve_" \o sourceID \o "_for_" \o target,
     SourceID |-> sourceID, Target |-> target]

NewAvoidPolicy(sourceID, target) ==
    [kind |-> "avoid", Name |-> "avoid_" \o sourceID \o "_for_" \o target,
     SourceID |-> sourceID, Target |-> target]

NewStickyPolicy ==
    [kind |-> "stick", Name |-> "stick", SourceID |-> NoName, Target |-> NoName]

NoPolicy == [kind |-> "none", Name |-> NoName, SourceID |-> NoName, Target |-> NoName]

BlockAccept(p, id, target) == id # p.SourceID

\* a Reserve that answers target == p.Target for every source
ReservedAcceptAny(p, id, target) == target = p.Target

ReservedAccept(p, id, target) ==
    IF id = p.SourceID THEN target = p.Target ELSE TRUE

AvoidAccept(p, id, target) ==
    IF target = p.Target THEN id # p.SourceID ELSE TRUE

\* a Sticky that accepts everybody but the bound source
StickyAcceptOthers(hist, id, target) ==
    IF hist[target].ok THEN id # hist[target].hid ELSE TRUE

StickyAccept(hist, id, target) ==
    IF hist[target].ok THEN id = hist[target].hid ELSE TRUE

\* p.Accept(id, target), dispatched on the policy's type
PolicyAccept(p, hist, id, target) ==
    CASE p.kind = "block" -> BlockAccept(p, id, target)
      [] p.kind = "reserve" -> ReservedAccept(p, id, target)
      [] p.kind = "avoid" -> AvoidAccept(p, id, target)
      [] p.kind = "stick" -> StickyAccept(hist, id, target)

Pv0 == [pol |-> NoPolicy, hist |-> [t \in Targets |-> NoBinding],
        called |-> FALSE, id |-> NoName, target |-> NoName, res |-> FALSE]

\* ---------------------------------------------------------- Interface
\* conns: the connections followed and still open; made: how many were
\* handed to Follow so far; bad: those whose Close fails
Ifc0 == [conns |-> {}, made |-> 0, bad |-> {},
         last |-> "New", prevLen |-> 0, tracked |-> FALSE, clean |-> TRUE,
         err |-> FALSE]

IfcLen(i) == Cardinality(i.conns)

\* a Follow that wraps the connection without registering it
IfcFollowLost(i, c) == i.conns

\* Follow(conn): conn is registered in conns
IfcFollow(i, c) == i.conns \cup {c}

\* Close of the wrapped connection: the connection is deregistered
IfcConnClose(i, c) == i.conns \ {c}

\* Interface.Close: every tracked connection is closed, none stays tracked;
\* the error is the aggregate of the failed closes
IfcClose(i) == [conns |-> {}, err |-> (i.conns \cap i.bad # {})]
\* ---------------------------------------------------------------- core.Ring
\* container/ring is a doubly linked cycle of elements; a core.Ring holds a
\* pointer to one of them (its cursor).  The elements live in a heap of nodes
\* 1..MaxRing with their next and prev pointers and their Value; the nil
\* *ring.Ring is NilRing.  m is a heap together with the pointer r.Ring.
Nodes == 1..MaxRing
NilRing == 0
RingArgs == UNION {[1..n -> RingNames] : n \in 0..MaxRing}

\* ring.New(n): n elements linked in a cycle, Values nil; nil for n <= 0
ring_New(n) ==
    [next |-> [i \in Nodes |-> IF i < n THEN i + 1 ELSE IF i = n THEN 1 ELSE i],
     prev |-> [i \in Nodes |-> IF i > n THEN i ELSE IF i = 1 THEN n ELSE i - 1],
     val |-> [i \in Nodes |-> NilSource],
     r |-> IF n <= 0 THEN NilRing ELSE 1]

\* ring.Move(n): n steps forwards (n > 0) or backwards (n < 0) from p
RECURSIVE ring_Move(_, _, _)
ring_Move(m, p, n) ==
    IF n > 0 THEN ring_Move(m, m.next[p], n - 1)
    ELSE IF n < 0 THEN ring_Move(m, m.prev[p], n + 1)
    ELSE p

\* ring.Link(s) on element r: r.next = s; s.prev = r; n.prev = p; p.next = n,
\* with n the old r.Next() and p the old s.Prev(); the result is n
ring_Link(m, r, s) ==
    LET n == m.next[r]
    IN  IF s = NilRing THEN [m |-> m, n |-> n]
        ELSE LET p == m.prev[s]
             IN  [m |-> [m EXCEPT !.next = [m.next EXCEPT ![r] = s, ![p] = n],
                                  !.prev = [m.prev EXCEPT ![s] = r, ![n] = p]],
                  n |-> n]

\* an Unlink that moves n elements on instead of n + 1
ring_UnlinkShort(m, r, n) ==
    IF n <= 0 THEN [m |-> m, n |-> NilRing]
    ELSE ring_Link(m, r, ring_Move(m, r, n))

\* ring.Unlink(n) on element r: nil for n <= 0, else r.Link(r.Move(n + 1))
ring_Unlink(m, r, n) ==
    IF n <= 0 THEN [m |-> m, n |-> NilRing]
    ELSE ring_Link(m, r, ring_Move(m, r, n + 1))

\* the elements of p's cycle, from p forwards (the walk of ring.Do and ring.Len)
RECURSIVE NodesFrom(_, _, _)
NodesFrom(m, start, p) ==
    IF p = start THEN <<>> ELSE <<p>> \o NodesFrom(m, start, m.next[p])

RingNodes(m, p) ==
    IF p = NilRing THEN <<>> ELSE <<p>> \o NodesFrom(m, p, m.next[p])

ring_Len(m, p) == Len(RingNodes(m, p))

NewRing(n) == ring_New(n)

\* Source(): the Value at the cursor, nil if it is no Source
RingSource(m) == m.val[m.r]

\* Set(s)
RingSet(m, s) == [m EXCEPT !.val[m.r] = s]

\* Do(f): the values f is called with, in order
RingDo(m) ==
    LET ns == RingNodes(m, m.r)
    IN  [i \in 1..Len(ns) |-> m.val[ns[i]]]

\* a Next that goes two elements on
RingNextTwice(m) == [m EXCEPT !.r = m.next[m.next[m.r]]]

\* a Next that leaves the cursor where it is
RingNextStay(m) == m

\* Next(): r.Ring = r.Ring.Next()
RingNext(m) == [m EXCEPT !.r = m.next[m.r]]

\* Prev(): r.Ring = r.Ring.Prev()
RingPrev(m) == [m EXCEPT !.r = m.prev[m.r]]

\* Link(s): r.Ring = r.Ring.Link(s.Ring)
RingLink(m, s) ==
    LET l == ring_Link(m, m.r, s)
    IN  [l.m EXCEPT !.r = l.n]

\* Unlink(n): &Ring{r.Ring.Unlink(n)}; r.Ring itself is not reassigned
RingUnlink(m, n) ==
    LET u == ring_Unlink(m, m.r, n)
    IN  [m |-> u.m, removed |-> u.n]

\* NewRingSources(ss...): r := NewRing(len(ss)); for each v: r.Set(v); r.Next()
RECURSIVE SetAll(_, _)
SetAll(m, ss) ==
    IF ss = <<>> THEN m
    ELSE SetAll(RingNext(RingSet(m, Head(ss))), Tail(ss))

NewRingSources(ss) == SetAll(NewRing(Len(ss)), ss)

\* rg: the ring m, the handle rem returned by the last Unlink, and a record
\* of the calls: last call, the sources of the last NewRingSources, whether
\* only Next was called since (fresh) and how often (steps), the argument n
\* of the last Unlink, the elements of r's cycle before it (orig) and whether
\* a Link directly follows an Unlink of 0 < n < L elements (direct)
RgNew(ss) ==
    [m |-> NewRingSources(ss), rem |-> NilRing, last |-> "New", ss |-> ss,
     fresh |-> TRUE, steps |-> 0, n |-> 0, orig |-> <<>>, direct |-> FALSE]

Rg0 == RgNew(<<>>)
\* ------------------------------------------------------------- Balancer
\* srcs: the accepted sources in insertion order; m: the ring built from
\* them; pols: the policies consulted per dial; hist: the host's record of
\* target -> source; t, got, order: the target of the current run of Get
\* calls, what they returned, and the sources eligible for t, in ring order
\* from the cursor, when the run began; lt, lgot, lorder: the same for the
\* first Get(lt) calls after the last membership or policy change, whatever
\* other targets were asked for and whatever the host recorded in between
BalPolicies ==
    {NewReservedPolicy("A", "t1"), NewAvoidPolicy("B", "t1"), NewStickyPolicy}

Bal0 == [srcs |-> <<>>, m |-> NewRingSources(<<>>), pols |-> {},
         hist |-> [t \in Targets |-> NoBinding],
         t |-> NoName, got |-> <<>>, order |-> <<>>,
         lt |-> NoName, lgot |-> <<>>, lorder |-> <<>>]

\* every policy accepts (source, target)
BalEligible(b, s, t) == \A p \in b.pols : PolicyAccept(p, b.hist, s, t)

\* the eligible sources for t in the order the ring visits them
EligibleOrder(b, t) == SelectSeq(RingDo(b.m), LAMBDA s : BalEligible(b, s, t))

\* at most left positions are tried from the cursor; the first eligible source
\* is returned and the cursor moves past it
RECURSIVE BalScan(_, _, _, _)
BalScan(b, m, t, left) ==
    IF left = 0 THEN [m |-> m, src |-> NilSource]
    ELSE IF BalEligible(b, RingSource(m), t)
         THEN [m |-> RingNext(m), src |-> RingSource(m)]
         ELSE BalScan(b, RingNext(m), t, left - 1)

\* Get(target): a source, or no source (ErrNoSources)
BalGet(b, t) ==
    IF b.m.r = NilRing THEN [m |-> b.m, src |-> NilSource]
    ELSE BalScan(b, b.m, t, ring_Len(b.m, b.m.r))

\* a membership or policy change ends the current run of Get calls
BalChanged(b) ==
    [b EXCEPT !.t = NoName, !.got = <<>>, !.order = <<>>,
              !.lt = NoName, !.lgot = <<>>, !.lorder = <<>>]

\* the host's record leaves the membership and the policy list as they are
BalRecorded(b) == [b EXCEPT !.t = NoName, !.got = <<>>, !.order = <<>>]

\* ------------------------------------------------------------------ state
VARIABLES
    protected,      \* ss.protected, in insertion order
    Policies,       \* ss.Policies
    underPolicy,    \* ss.underPolicy
    lastOp,         \* the last completed call and its arguments
    pre,            \* the SourceStore before that call
    ret,            \* what that call returned
    wk,             \* per worker: the call in progress, its position, its locals
    pv,             \* a policy of policy.go, the bind history and the last Accept
    ifc,            \* a source.Interface and the connections it follows
    rg,             \* a core.Ring, the ring last unlinked from it, the last call
    bal             \* the balancer: its ring, its policies, the sources it gave

vars == <<protected, Policies, underPolicy, lastOp, pre, ret, wk, pv, ifc, rg, bal>>

\* the SourceStore and the history of its calls
storeVars == <<protected, Policies, underPolicy, lastOp, pre, ret, wk>>

\* the workers that share one SourceStore: the listener and the admin API
Workers == {"listener", "admin"}

Idle == [pc |-> "idle", op |-> [op |-> "New", srcs |-> <<>>, p |-> NilPolicy, id |-> NoName],
         acc |-> <<>>, up |-> <<>>]

\* the SourceStore as one value
cur == [protected |-> protected, Policies |-> Policies, underPolicy |-> underPolicy]

Call(op, srcs, p, id) == [op |-> op, srcs |-> srcs, p |-> p, id |-> id]

\* install the store value nxt as the result of the call c returning r
Apply(nxt, c, r) ==
    /\ protected' = nxt.protected
    /\ Policies' = nxt.Policies
    /\ underPolicy' = nxt.underPolicy
    /\ lastOp' = c
    /\ pre' = cur
    /\ ret' = r
    /\ wk' = wk
    /\ UNCHANGED <<pv, ifc, rg, bal>>

Init ==
    /\ protected = New.protected
    /\ Policies = New.Policies
    /\ underPolicy = New.underPolicy
    /\ lastOp = Call("New", <<>>, NilPolicy, NoName)
    /\ pre = New
    /\ ret = <<>>
    /\ wk = [w \in Workers |-> Idle]
    /\ pv = Pv0 /\ ifc = Ifc0 /\ rg = Rg0 /\ bal = Bal0

Put ==
    \E sources \in ArgLists :
        /\ Len(SSPut(cur, sources).underPolicy) <= MaxUnder
        /\ Apply(SSPut(cur, sources), Call("Put", sources, NilPolicy, NoName), <<>>)

Del ==
    \E sources \in ArgLists :
        /\ Len(sources) >= 1
        /\ Apply(SSDel(cur, sources), Call("Del", sources, NilPolicy, NoName), <<>>)

AddPolicy ==
    \E p \in PolicyPool :
        /\ Len(Policies) < MaxPolicies
        /\ Len(SSAddPolicy(cur, p).underPolicy) <= MaxUnder
        /\ Apply(SSAddPolicy(cur, p), Call("AddPolicy", <<>>, p, NoName), <<>>)

DelPolicy ==
    \E id \in PolicyIDs :
        /\ id \in PolicyIDs
        /\ Apply(SSDelPolicy(cur, id), Call("DelPolicy", <<>>, NilPolicy, id), <<>>)

CallGetAccepted ==
    /\ ret' = GetAccepted(cur)
    /\ Apply(cur, Call("GetAccepted", <<>>, NilPolicy, NoName), GetAccepted(cur))

CallGetSourcesSnapshot ==
    /\ ret' = GetSourcesSnapshot(cur)
    /\ Apply(cur, Call("GetSourcesSnapshot", <<>>, NilPolicy, NoName),
             GetSourcesSnapshot(cur))

CallGetPoliciesSnapshot ==
    /\ ret' = GetPoliciesSnapshot(cur)
    /\ Apply(cur, Call("GetPoliciesSnapshot", <<>>, NilPolicy, NoName),
             GetPoliciesSnapshot(cur))

Next ==
    \/ Put
    \/ Del
    \/ AddPolicy
    \/ DelPolicy
    \/ CallGetAccepted
    \/ CallGetSourcesSnapshot
    \/ CallGetPoliciesSnapshot

Spec == Init /\ [][Next]_vars

\* ------------------------------------------- the same calls, unsynchronised
\* SourceStore has no lock: a call made by one worker runs statement by
\* statement beside the other worker's call.  The protected store serialises
\* its own Put, Del and Do.

\* stores the two workers may find when they start
StartStores ==
    { New,
      SSPut(New, <<"A">>),
      SSPut(New, <<"A", "B">>),
      SSAddPolicy(SSPut(New, <<"A">>), Policy("x", FalseFor({"A"}))),
      SSPut(SSAddPolicy(New, Policy("y", FalseFor({"A"}))), <<"A", "B">>) }

Calls ==
    {Call("Put", a, NilPolicy, NoName) : a \in ArgLists}
    \cup {Call("Del", a, NilPolicy, NoName) : a \in ArgLists}
    \cup {Call("AddPolicy", <<>>, p, NoName) : p \in PolicyPool}
    \cup {Call("DelPolicy", <<>>, NilPolicy, id) : id \in PolicyIDs}

FirstPc(c) ==
    CASE c.op = "Put" -> "put_check"
      [] c.op = "Del" -> "del_store"
      [] c.op = "AddPolicy" -> "ap_append"
      [] c.op = "DelPolicy" -> "dp_remove"

InitConc ==
    /\ \E ss \in StartStores :
          /\ protected = ss.protected
          /\ Policies = ss.Policies
          /\ underPolicy = ss.underPolicy
          /\ pre = ss
    /\ lastOp = Call("New", <<>>, NilPolicy, NoName)
    /\ ret = <<>>
    /\ wk = [w \in Workers |-> Idle]
    /\ pv = Pv0 /\ ifc = Ifc0 /\ rg = Rg0 /\ bal = Bal0

At(w, pc) == wk[w].pc = pc
Goto(w, pc) == wk' = [wk EXCEPT ![w].pc = pc]
History == UNCHANGED <<lastOp, pre, ret, pv, ifc, rg, bal>>

\* a worker enters a call
Begin(w) ==
    /\ At(w, "idle")
    /\ \E c \in Calls : wk' = [wk EXCEPT ![w] = [Idle EXCEPT !.pc = FirstPc(c), !.op = c]]
    /\ UNCHANGED <<protected, Policies, underPolicy>>
    /\ History

\* AddPolicy: ss.Policies = append(ss.Policies, p)
ApAppend(w) ==
    /\ At(w, "ap_append")
    /\ Policies' = Append(Policies, wk[w].op.p)
    /\ Goto(w, "ap_sweep")
    /\ UNCHANGED <<protected, underPolicy>>
    /\ History

\* AddPolicy: ss.protected.Do collects the unaccepted sources in acc
ApSweep(w) ==
    /\ At(w, "ap_sweep")
    /\ wk' = [wk EXCEPT ![w].pc = "ap_del",
                        ![w].acc = AddPolicySweep(protected, wk[w].op.p)]
    /\ UNCHANGED <<protected, Policies, underPolicy>>
    /\ History

\* AddPolicy: ss.protected.Del(acc...)
ApDel(w) ==
    /\ At(w, "ap_del")
    /\ protected' = StoreDel(protected, wk[w].acc)
    /\ Goto(w, "ap_trace")
    /\ UNCHANGED <<Policies, underPolicy>>
    /\ History

\* AddPolicy: the sources of acc are appended to ss.underPolicy
ApTrace(w) ==
    /\ At(w, "ap_trace")
    /\ underPolicy' = underPolicy \o
          [i \in 1..Len(wk[w].acc) |-> AddPolicyTrace(wk[w].acc[i], wk[w].op.p)]
    /\ Goto(w, "done")
    /\ UNCHANGED <<protected, Policies>>
    /\ History

\* Put: every source is checked against ss.Policies, filling acc and up
StepPutCheck(w) ==
    /\ At(w, "put_check")
    /\ LET r == SSPut([protected |-> <<>>, Policies |-> Policies, underPolicy |-> <<>>],
                      wk[w].op.srcs)
       IN  wk' = [wk EXCEPT ![w].pc = "put_store",
                            ![w].acc = SelectSeq(wk[w].op.srcs,
                                          LAMBDA v : PutCheck(Policies, v).ok),
                            ![w].up = r.underPolicy]
    /\ UNCHANGED <<protected, Policies, underPolicy>>
    /\ History

\* Put: ss.protected.Put(acc...)
StepPutStore(w) ==
    /\ At(w, "put_store")
    /\ protected' = StorePut(protected, wk[w].acc)
    /\ Goto(w, "put_under")
    /\ UNCHANGED <<Policies, underPolicy>>
    /\ History

\* Put: ss.underPolicy = append(ss.underPolicy, up...)
StepPutUnder(w) ==
    /\ At(w, "put_under")
    /\ underPolicy' = underPolicy \o wk[w].up
    /\ Goto(w, "done")
    /\ UNCHANGED <<protected, Policies>>
    /\ History

\* Del: ss.protected.Del(sources...)
StepDelStore(w) ==
    /\ At(w, "del_store")
    /\ protected' = StoreDel(protected, wk[w].op.srcs)
    /\ Goto(w, "del_filter")
    /\ UNCHANGED <<Policies, underPolicy>>
    /\ History

\* Del: the loop over ss.underPolicy fills up
StepDelFilter(w) ==
    /\ At(w, "del_filter")
    /\ wk' = [wk EXCEPT ![w].pc = "del_assign",
                        ![w].up = SelectSeq(underPolicy,
                                     LAMBDA e : DelKeeps(wk[w].op.srcs, e))]
    /\ UNCHANGED <<protected, Policies, underPolicy>>
    /\ History

\* Del: ss.underPolicy = up
StepDelAssign(w) ==
    /\ At(w, "del_assign")
    /\ underPolicy' = wk[w].up
    /\ Goto(w, "done")
    /\ UNCHANGED <<protected, Policies>>
    /\ History

\* DelPolicy: the first policy with the id is cut out of ss.Policies, or the
\* call returns
StepDpRemove(w) ==
    /\ At(w, "dp_remove")
    /\ LET r == SSDelPolicy([protected |-> <<>>, Policies |-> Policies,
                             underPolicy |-> <<>>], wk[w].op.id)
       IN  /\ Policies' = r.Policies
           /\ Goto(w, IF r.Policies = Policies THEN "done" ELSE "dp_restore")
    /\ UNCHANGED <<protected, underPolicy>>
    /\ History

\* DelPolicy: the loop over ss.underPolicy restores the freed sources and
\* fills acc with the entries that stay
StepDpRestore(w) ==
    /\ At(w, "dp_restore")
    /\ LET freed == SelectSeq(underPolicy, LAMBDA v : v.Policy.ID = wk[w].op.id)
       IN  /\ protected' = DelPolicyRestore(protected, freed)
           /\ wk' = [wk EXCEPT ![w].pc = "dp_assign",
                               ![w].up = SelectSeq(underPolicy,
                                            LAMBDA v : v.Policy.ID # wk[w].op.id)]
    /\ UNCHANGED <<Policies, underPolicy>>
    /\ History

\* DelPolicy: ss.underPolicy = acc
StepDpAssign(w) ==
    /\ At(w, "dp_assign")
    /\ underPolicy' = wk[w].up
    /\ Goto(w, "done")
    /\ UNCHANGED <<protected, Policies>>
    /\ History

NextConc ==
    \E w \in Workers :
        \/ Begin(w)
        \/ ApAppend(w)
        \/ ApSweep(w)
        \/ ApDel(w)
        \/ ApTrace(w)
        \/ StepPutCheck(w)
        \/ StepPutStore(w)
        \/ StepPutUnder(w)
        \/ StepDelStore(w)
        \/ StepDelFilter(w)
        \/ StepDelAssign(w)
        \/ StepDpRemove(w)
        \/ StepDpRestore(w)
        \/ StepDpAssign(w)

SpecConc == InitConc /\ [][NextConc]_vars

\* --------------------------------------------------- policies, on their own
MakePolicy(p) ==
    /\ pv' = [Pv0 EXCEPT !.pol = p, !.hist = pv.hist]
    /\ UNCHANGED <<storeVars, ifc, rg, bal>>

MakeBlock ==
    \E s \in SourceNames :
        /\ pv.pol # NewBlockPolicy(s)
        /\ MakePolicy(NewBlockPolicy(s))

MakeReserved ==
    \E s \in SourceNames, t \in Targets :
        /\ pv.pol # NewReservedPolicy(s, t)
        /\ MakePolicy(NewReservedPolicy(s, t))

MakeAvoid ==
    \E s \in SourceNames, t \in Targets :
        /\ pv.pol # NewAvoidPolicy(s, t)
        /\ MakePolicy(NewAvoidPolicy(s, t))

MakeSticky ==
    /\ pv.pol # NewStickyPolicy
    /\ MakePolicy(NewStickyPolicy)

\* the policy host records that target was served by id; a target is bound once
Bind ==
    \E t \in Targets, id \in SourceNames :
        /\ ~pv.hist[t].ok
        /\ pv' = [pv EXCEPT !.hist[t] = Bound(id), !.called = FALSE]
        /\ UNCHANGED <<storeVars, ifc, rg, bal>>

CallAccept ==
    \E id \in SourceNames, t \in Targets :
        /\ pv.pol # NoPolicy
        /\ pv' = [pv EXCEPT !.called = TRUE, !.id = id, !.target = t,
                            !.res = PolicyAccept(pv.pol, pv.hist, id, t)]
        /\ UNCHANGED <<storeVars, ifc, rg, bal>>

NextPolicy ==
    \/ MakeBlock
    \/ MakeReserved
    \/ MakeAvoid
    \/ MakeSticky
    \/ Bind
    \/ CallAccept

SpecPolicy == Init /\ [][NextPolicy]_vars

\* ------------------------------------- the store under target-aware policies
\* For membership decisions a policy is asked about the wildcard target.
WildcardTarget == "*"

\* the store Policy that stands for the target-aware policy v
AsStorePolicy(v) ==
    Policy(v.Name,
           [n \in SourceNames |->
               PolicyAccept(v, [t \in Targets \cup {WildcardTarget} |-> NoBinding],
                            n, WildcardTarget)])

TargetPolicies ==
    {NewReservedPolicy(s, t) : s \in SourceNames, t \in Targets}
    \cup {NewAvoidPolicy(s, t) : s \in SourceNames, t \in Targets}

GatePolicies == TargetPolicies \cup {NewBlockPolicy(s) : s \in SourceNames}

GateAddPolicy ==
    \E v \in GatePolicies :
        /\ Len(Policies) < MaxPolicies
        /\ Len(SSAddPolicy(cur, AsStorePolicy(v)).underPolicy) <= MaxUnder
        /\ Apply(SSAddPolicy(cur, AsStorePolicy(v)),
                 Call("AddPolicy", <<>>, AsStorePolicy(v), NoName), <<>>)

GateDelPolicy ==
    \E v \in GatePolicies :
        /\ \E i \in 1..Len(Policies) : Policies[i].ID = v.Name
        /\ Apply(SSDelPolicy(cur, v.Name),
                 Call("DelPolicy", <<>>, NilPolicy, v.Name), <<>>)

NextGate ==
    \/ Put
    \/ Del
    \/ GateAddPolicy
    \/ GateDelPolicy

SpecGate == Init /\ [][NextGate]_vars

\* ------------------------------------------------- an Interface, on its own
Follow ==
    \E fails \in BOOLEAN :
        /\ ifc.made < MaxConns
        /\ LET c == ifc.made + 1
           IN  ifc' = [ifc EXCEPT !.conns = IfcFollow(ifc, c),
                                  !.made = c,
                                  !.bad = IF fails THEN @ \cup {c} ELSE @,
                                  !.last = "Follow",
                                  !.prevLen = IfcLen(ifc),
                                  !.tracked = FALSE]
        /\ UNCHANGED <<storeVars, pv, rg, bal>>

ConnClose ==
    \E c \in 1..MaxConns :
        /\ c <= ifc.made
        /\ ifc' = [ifc EXCEPT !.conns = IfcConnClose(ifc, c),
                              !.last = "ConnClose",
                              !.prevLen = IfcLen(ifc),
                              !.tracked = c \in ifc.conns]
        /\ UNCHANGED <<storeVars, pv, rg, bal>>

InterfaceClose ==
    /\ ifc' = [ifc EXCEPT !.conns = IfcClose(ifc).conns,
                          !.err = IfcClose(ifc).err,
                          !.clean = (ifc.conns \cap ifc.bad = {}),
                          !.last = "Close",
                          !.prevLen = IfcLen(ifc),
                          !.tracked = FALSE]
    /\ UNCHANGED <<storeVars, pv, rg, bal>>

NextIfc ==
    \/ Follow
    \/ ConnClose
    \/ InterfaceClose

SpecIfc == Init /\ [][NextIfc]_vars

\* --------------------------------------------------------- a Ring, on its own
\* Every method but NewRingSources and Unlink(n <= 0) dereferences r.Ring and
\* panics on the empty ring; the panic ends the program and is not a step.
Stale(op) ==
    [rg EXCEPT !.last = op, !.fresh = FALSE, !.steps = 0, !.n = 0,
               !.orig = <<>>, !.direct = FALSE]

\* r := NewRingSources(ss...) for any sources ss
InitRing ==
    /\ protected = New.protected
    /\ Policies = New.Policies
    /\ underPolicy = New.underPolicy
    /\ lastOp = Call("New", <<>>, NilPolicy, NoName)
    /\ pre = New
    /\ ret = <<>>
    /\ wk = [w \in Workers |-> Idle]
    /\ pv = Pv0 /\ ifc = Ifc0 /\ bal = Bal0
    /\ \E ss \in RingArgs : rg = RgNew(ss)

CallRingNext ==
    /\ rg.m.r # NilRing
    /\ rg' = [Stale("Next") EXCEPT
                 !.m = RingNext(rg.m),
                 !.fresh = rg.fresh /\ rg.steps < Len(rg.ss),
                 !.steps = IF rg.fresh /\ rg.steps < Len(rg.ss)
                           THEN rg.steps + 1 ELSE 0]
    /\ UNCHANGED <<storeVars, pv, ifc, bal>>

CallRingPrev ==
    /\ rg.m.r # NilRing
    /\ rg' = [Stale("Prev") EXCEPT !.m = RingPrev(rg.m)]
    /\ UNCHANGED <<storeVars, pv, ifc, bal>>

CallRingUnlink ==
    \E n \in 0..(MaxRing + 1) :
        /\ n <= 0 \/ rg.m.r # NilRing
        /\ LET u == RingUnlink(rg.m, n)
           IN  rg' = [Stale("Unlink") EXCEPT
                         !.m = u.m, !.rem = u.removed, !.n = n,
                         !.orig = RingNodes(rg.m, rg.m.r)]
        /\ UNCHANGED <<storeVars, pv, ifc, bal>>

\* r.Link(removed), removed being the handle the last Unlink returned
CallRingLink ==
    /\ rg.m.r # NilRing
    /\ rg' = [Stale("Link") EXCEPT
                 !.m = RingLink(rg.m, rg.rem),
                 !.n = rg.n,
                 !.orig = rg.orig,
                 !.direct = /\ rg.last = "Unlink"
                            /\ 0 < rg.n
                            /\ rg.n < Len(rg.orig)]
    /\ UNCHANGED <<storeVars, pv, ifc, bal>>

NextRing ==
    \/ CallRingNext
    \/ CallRingPrev
    \/ CallRingUnlink
    \/ CallRingLink

SpecRing == InitRing /\ [][NextRing]_vars

\* ------------------------------------------------------ a Balancer, on its own
BalPut ==
    \E s \in RingNames :
        /\ Len(StorePut(bal.srcs, <<s>>)) <= MaxRing
        /\ bal' = [BalChanged(bal) EXCEPT
                      !.srcs = StorePut(bal.srcs, <<s>>),
                      !.m = NewRingSources(StorePut(bal.srcs, <<s>>))]
        /\ UNCHANGED <<storeVars, pv, ifc, rg>>

BalDel ==
    \E s \in RingNames :
        /\ s \in Range(bal.srcs)
        /\ bal' = [BalChanged(bal) EXCEPT
                      !.srcs = StoreDel(bal.srcs, <<s>>),
                      !.m = NewRingSources(StoreDel(bal.srcs, <<s>>))]
        /\ UNCHANGED <<storeVars, pv, ifc, rg>>

BalAddPolicy ==
    \E p \in BalPolicies :
        /\ p \notin bal.pols
        /\ bal' = [BalChanged(bal) EXCEPT !.pols = @ \cup {p}]
        /\ UNCHANGED <<storeVars, pv, ifc, rg>>

BalDelPolicy ==
    \E p \in BalPolicies :
        /\ p \in bal.pols
        /\ bal' = [BalChanged(bal) EXCEPT !.pols = @ \ {p}]
        /\ UNCHANGED <<storeVars, pv, ifc, rg>>

\* the host records target -> source for the source just returned
BalRecord ==
    /\ bal.got # <<>>
    /\ bal.got[Len(bal.got)] # NilSource
    /\ ~bal.hist[bal.t].ok
    /\ bal' = [BalRecorded(bal) EXCEPT
                  !.hist[bal.t] = Bound(bal.got[Len(bal.got)])]
    /\ UNCHANGED <<storeVars, pv, ifc, rg>>

CallBalGet ==
    \E t \in Targets :
        /\ LET g == BalGet(bal, t)
               goesOn == t = bal.t /\ Len(bal.got) < MaxGets
               begins == bal.lt = NoName
               counts == t = bal.lt /\ Len(bal.lgot) < Len(bal.lorder)
           IN  bal' = [bal EXCEPT
                          !.m = g.m,
                          !.t = t,
                          !.got = IF goesOn THEN Append(@, g.src) ELSE <<g.src>>,
                          !.order = IF goesOn THEN @ ELSE EligibleOrder(bal, t),
                          !.lt = IF begins THEN t ELSE @,
                          !.lgot = IF begins THEN <<g.src>>
                                   ELSE IF counts THEN Append(@, g.src) ELSE @,
                          !.lorder = IF begins THEN EligibleOrder(bal, t) ELSE @]
        /\ UNCHANGED <<storeVars, pv, ifc, rg>>

NextBal ==
    \/ BalPut
    \/ BalDel
    \/ BalAddPolicy
    \/ BalDelPolicy
    \/ BalRecord
    \/ CallBalGet

SpecBal == Init /\ [][NextBal]_vars

\* ------------------------------------------------------- shared vocabulary
\* a policy accepts a source when its Func returns true for the source's name
Accepts(p, name) == p.Func[name]

AcceptedByAll(pols, name) == \A i \in 1..Len(pols) : Accepts(pols[i], name)

\* the sources an underPolicy list keeps
Kept(up) == {up[i].internal : i \in 1..Len(up)}

\* every source the SourceStore holds
Held(ss) == Range(ss.protected) \cup Kept(ss.underPolicy)

\* ---------------------------------------------------------------- claims

\* C1: after any sequence of Put, Del, AddPolicy and DelPolicy, a source the
\* store holds is in the protected store iff every policy of the list accepts
\* its name.
C1_Admission ==
    \A s \in Held(cur) :
        s \in Range(protected) <=> AcceptedByAll(Policies, s)

\* C2: after any sequence of Put, Del, AddPolicy and DelPolicy, no source name
\* is both in the protected store and in an underPolicy entry.
C2_Partition ==
    \A i \in 1..Len(underPolicy) :
        /\ underPolicy[i].internal \notin Range(protected)
        /\ underPolicy[i].Name \notin Range(protected)

\* C3: DelPolicy(id) restores a source tagged with the removed policy only
\* when no remaining policy rejects it; a source another policy still rejects
\* stays out of protected and stays under policy.
C3_RestoreOnlyIfAccepted ==
    lastOp.op = "DelPolicy" =>
        \A i \in 1..Len(pre.underPolicy) :
            LET e == pre.underPolicy[i]
            IN  (e.Policy.ID = lastOp.id /\ ~AcceptedByAll(Policies, e.internal))
                    => /\ e.internal \notin Range(protected)
                       /\ e.internal \in Kept(underPolicy)

\* C4 as stated: AddPolicy(p) immediately followed by DelPolicy(p.id) leaves
\* the accepted set as it was before AddPolicy, for every p, also one whose
\* id is already in the list.
C4_AddDelNoOp ==
    [][(/\ lastOp.op = "AddPolicy"
        /\ lastOp'.op = "DelPolicy"
        /\ lastOp'.id = lastOp.p.ID)
          => Range(protected') = Range(pre.protected)]_vars

\* the id of the policy just added was not in the list before
FreshId == \A i \in 1..Len(pre.Policies) : pre.Policies[i].ID # lastOp.p.ID

\* C4 amended: AddPolicy(p) immediately followed by DelPolicy(p.id) leaves the
\* accepted set as it was before AddPolicy, provided no policy of the list
\* already had p's id.
C4_AddDelNoOpFreshId ==
    [][(/\ lastOp.op = "AddPolicy"
        /\ FreshId
        /\ lastOp'.op = "DelPolicy"
        /\ lastOp'.id = lastOp.p.ID)
          => Range(protected') = Range(pre.protected)]_vars

\* DelPolicy(id) has just freed a source that an AddPolicy of a policy with a
\* fresh id had evicted
C4_Witness ==
    /\ lastOp.op = "DelPolicy"
    /\ Len(pre.Policies) >= 1
    /\ pre.Policies[Len(pre.Policies)].ID = lastOp.id
    /\ \A i \in 1..(Len(pre.Policies) - 1) : pre.Policies[i].ID # lastOp.id
    /\ \E i \in 1..Len(pre.underPolicy) :
          /\ pre.underPolicy[i] =
                AddPolicyTrace(pre.underPolicy[i].internal,
                               pre.Policies[Len(pre.Policies)])
          /\ pre.underPolicy[i].internal \in Range(protected)
          /\ pre.underPolicy[i].internal \notin Range(pre.protected)

\* C5: after Del(s), s is neither in the protected store nor under policy,
\* whatever put it there.
C5_DelRemoves ==
    lastOp.op = "Del" => \A s \in Range(lastOp.srcs) : s \notin Held(cur)

\* the store a call leaves when it runs alone
RunAlone(ss, c) ==
    CASE c.op = "Put" -> SSPut(ss, c.srcs)
      [] c.op = "Del" -> SSDel(ss, c.srcs)
      [] c.op = "AddPolicy" -> SSAddPolicy(ss, c.p)
      [] c.op = "DelPolicy" -> SSDelPolicy(ss, c.id)

\* the stores the two workers' calls leave when run one at a time, either way
SerialOutcomes ==
    { RunAlone(RunAlone(pre, wk[o[1]].op), wk[o[2]].op) :
        o \in {<<"listener", "admin">>, <<"admin", "listener">>} }

AllDone == \A w \in Workers : wk[w].pc = "done"

\* C6: Put, Del, AddPolicy and DelPolicy invoked concurrently by different
\* workers are serialized: once both calls have returned, the store is one
\* that running the two calls one at a time, in some order, produces.
C6_Serialized == AllDone => cur \in SerialOutcomes

\* C7: GetPoliciesSnapshot returns the policy list: same length, same policies,
\* same order.
C7_PoliciesSnapshot ==
    lastOp.op = "GetPoliciesSnapshot" => ret = Policies

\* C8: GetSourcesSnapshot returns one unblocked record per protected source
\* and one blocked record, with its policy, per underPolicy entry, each named
\* after the source it describes.
C8_SourcesSnapshot ==
    lastOp.op = "GetSourcesSnapshot" =>
        /\ Len(ret) = Len(protected) + Len(underPolicy)
        /\ \A i \in 1..Len(protected) :
              ret[i].Name = protected[i] /\ ~ret[i].Blocked
        /\ \A j \in 1..Len(underPolicy) :
              LET r == ret[Len(protected) + j]
              IN  /\ r.Blocked
                  /\ r.Policy = underPolicy[j].Policy
                  /\ r.Name = underPolicy[j].internal

\* the first policy, in list order, that rejects name
FirstRejector(pols, name) ==
    pols[CHOOSE i \in 1..Len(pols) :
            /\ ~Accepts(pols[i], name)
            /\ \A j \in 1..(i - 1) : Accepts(pols[j], name)]

\* C9: Put adds a source to protected when every policy accepts it; otherwise
\* it appends it to underPolicy, blocked and tagged with the first policy that
\* rejects it, and does not add it to protected.
C9_Put ==
    lastOp.op = "Put" =>
        LET args == lastOp.srcs
            rej  == SelectSeq(args, LAMBDA s : ~AcceptedByAll(pre.Policies, s))
            ok   == {s \in Range(args) : AcceptedByAll(pre.Policies, s)}
        IN  /\ Range(protected) = Range(pre.protected) \cup ok
            /\ Len(underPolicy) = Len(pre.underPolicy) + Len(rej)
            /\ SubSeq(underPolicy, 1, Len(pre.underPolicy)) = pre.underPolicy
            /\ \A i \in 1..Len(rej) :
                  LET e == underPolicy[Len(pre.underPolicy) + i]
                  IN  /\ e.internal = rej[i]
                      /\ e.Blocked
                      /\ e.Policy = FirstRejector(pre.Policies, rej[i])
            /\ Policies = pre.Policies

\* a Put of a source that two different policies reject, beside a Put of an
\* accepted source
C9_Witness ==
    /\ lastOp.op = "Put"
    /\ Len(Policies) = 2
    /\ Policies[1] # Policies[2]
    /\ \E s \in Range(lastOp.srcs) :
          /\ ~Accepts(Policies[1], s)
          /\ ~Accepts(Policies[2], s)
          /\ s \in Kept(underPolicy)
    /\ \E s \in Range(lastOp.srcs) :
          AcceptedByAll(Policies, s) /\ s \notin Range(pre.protected)

\* C10: AddPolicy(p) appends p to the policy list, moves exactly the protected
\* sources p rejects to underPolicy tagged with p, keeps the other protected
\* sources and leaves the earlier underPolicy entries as they were.
C10_AddPolicy ==
    lastOp.op = "AddPolicy" =>
        LET p    == lastOp.p
            out  == SelectSeq(pre.protected, LAMBDA s : ~Accepts(p, s))
            stay == SelectSeq(pre.protected, LAMBDA s : Accepts(p, s))
        IN  /\ Policies = Append(pre.Policies, p)
            /\ protected = stay
            /\ Len(underPolicy) = Len(pre.underPolicy) + Len(out)
            /\ SubSeq(underPolicy, 1, Len(pre.underPolicy)) = pre.underPolicy
            /\ \A i \in 1..Len(out) :
                  LET e == underPolicy[Len(pre.underPolicy) + i]
                  IN  e.internal = out[i] /\ e.Policy = p /\ e.Blocked

\* an AddPolicy that evicts one source, keeps another and finds an entry
\* already under policy
C10_Witness ==
    /\ lastOp.op = "AddPolicy"
    /\ pre.underPolicy # <<>>
    /\ protected # <<>>
    /\ Len(protected) < Len(pre.protected)

\* C11: DelPolicy(id) removes exactly one policy, the first whose id is id,
\* and keeps the others, later ones with the same id included, in their
\* order; when no policy has the id, the policy list, the protected store and
\* underPolicy are unchanged.
C11_DelPolicy ==
    lastOp.op = "DelPolicy" =>
        LET old == pre.Policies
            hit == {i \in 1..Len(old) : old[i].ID = lastOp.id}
        IN  IF hit = {} THEN cur = pre
            ELSE \E j \in hit :
                    /\ \A i \in hit : j <= i
                    /\ Len(Policies) = Len(old) - 1
                    /\ \A i \in 1..(j - 1) : Policies[i] = old[i]
                    /\ \A i \in j..Len(Policies) : Policies[i] = old[i + 1]

\* a DelPolicy of an id that two different policies of the list carry
C11_Witness ==
    /\ lastOp.op = "DelPolicy"
    /\ Len(pre.Policies) = 2
    /\ pre.Policies[1].ID = lastOp.id
    /\ pre.Policies[2].ID = lastOp.id
    /\ pre.Policies[1] # pre.Policies[2]
    /\ Policies = <<pre.Policies[2]>>

\* C12: Block(S) rejects (id, t) exactly when id = S; Reserve(S, T) exactly
\* when id = S and t # T; Avoid(S, T) exactly when id = S and t = T.
C12_Accept ==
    pv.called =>
        LET p == pv.pol
        IN  /\ p.kind = "block" => (~pv.res <=> pv.id = p.SourceID)
            /\ p.kind = "reserve" =>
                  (~pv.res <=> (pv.id = p.SourceID /\ pv.target # p.Target))
            /\ p.kind = "avoid" =>
                  (~pv.res <=> (pv.id = p.SourceID /\ pv.target = p.Target))

\* a Reserve asked about another source and another target than its own
C12_Witness ==
    /\ pv.called
    /\ pv.pol.kind = "reserve"
    /\ pv.id # pv.pol.SourceID
    /\ pv.target # pv.pol.Target
    /\ pv.res

\* C13: Sticky accepts (id, t) only for id = h when the history binds t to h,
\* and accepts every id when the history has no binding for t.
C13_Sticky ==
    (pv.called /\ pv.pol.kind = "stick") =>
        IF pv.hist[pv.target].ok
        THEN pv.res <=> pv.id = pv.hist[pv.target].hid
        ELSE pv.res

\* Sticky asked about the source a target is bound to
C13_Witness ==
    /\ pv.called
    /\ pv.pol.kind = "stick"
    /\ pv.hist[pv.target] = Bound(pv.id)
    /\ pv.res

\* C14: a Reserve(S, T) or an Avoid(S, T) accepts the wildcard target, so
\* neither adding such a policy nor a Put while it is present files a source
\* under policy: no underPolicy entry is tagged with a Reserve or an Avoid.
C14_TargetPoliciesAdmit ==
    \A i \in 1..Len(underPolicy) :
        underPolicy[i].Policy.ID \notin {v.Name : v \in TargetPolicies}

\* C15: an Interface's Len is 0 initially, one more after every Follow, one
\* less after the Close of a tracked wrapped connection and 0 after
\* Interface.Close, which returns no error when every tracked connection
\* closed cleanly.
C15_Len ==
    /\ ifc.last = "New" => IfcLen(ifc) = 0
    /\ ifc.last = "Follow" => IfcLen(ifc) = ifc.prevLen + 1
    /\ (ifc.last = "ConnClose" /\ ifc.tracked) => IfcLen(ifc) = ifc.prevLen - 1
    /\ ifc.last = "Close" => (IfcLen(ifc) = 0 /\ (ifc.clean => ~ifc.err))

\* Interface.Close with two connections tracked and a third already closed
C15_Witness ==
    /\ ifc.last = "Close"
    /\ ifc.prevLen = 2
    /\ ifc.made = 3
    /\ ifc.clean
    /\ IfcLen(ifc) = 0

\* the sequence s started k positions further on (cyclically)
Rotate(s, k) == [i \in 1..Len(s) |-> s[((i - 1 + k) % Len(s)) + 1]]

\* C19: NewRingSources(s1..sn) holds s1..sn in insertion order in exactly n
\* positions with the cursor on s1: Do visits s1..sn, after k < n Next calls
\* Source() is s(k+1), and after n Next calls the cursor is back on s1; for
\* n = 0 the ring is empty.
C19_NewRingSources ==
    rg.fresh =>
        LET n == Len(rg.ss)
        IN  /\ ring_Len(rg.m, rg.m.r) = n
            /\ n = 0 => (rg.m.r = NilRing /\ RingDo(rg.m) = <<>>)
            /\ rg.steps <= n
            /\ n > 0 => /\ RingSource(rg.m) = rg.ss[(rg.steps % n) + 1]
                        /\ RingDo(rg.m) = Rotate(rg.ss, rg.steps)
            /\ rg.steps \in {0, n} => RingDo(rg.m) = rg.ss

\* three distinct sources, walked once around with Next
C19_Witness ==
    /\ rg.fresh
    /\ rg.ss = <<"A", "B", "C">>
    /\ rg.steps = 3
    /\ rg.last = "Next"
    /\ RingSource(rg.m) = "A"

\* C20: r.Unlink(n) with 0 < n < L returns the n elements after r's cursor, in
\* order, as a ring of n positions; r keeps the other L - n elements in order
\* with its cursor unmoved; r.Link(removed) right after gives the L elements
\* in their original cyclic order.
C20_UnlinkLink ==
    LET L == Len(rg.orig)
        now == RingNodes(rg.m, rg.m.r)
    IN  /\ (rg.last = "Unlink" /\ 0 < rg.n /\ rg.n < L) =>
               /\ RingNodes(rg.m, rg.rem) = SubSeq(rg.orig, 2, rg.n + 1)
               /\ ring_Len(rg.m, rg.rem) = rg.n
               /\ now = <<rg.orig[1]>> \o SubSeq(rg.orig, rg.n + 2, L)
               /\ rg.m.r = rg.orig[1]
        /\ (rg.last = "Link" /\ rg.direct) =>
               /\ Len(now) = L
               /\ \E k \in 0..(L - 1) : now = Rotate(rg.orig, k)

\* one of three elements unlinked and linked back
C20_Witness ==
    /\ rg.last = "Link"
    /\ rg.direct
    /\ rg.n = 1
    /\ Len(rg.orig) = 3
    /\ ring_Len(rg.m, rg.m.r) = 3

\* next and prev stay inverse permutations of the nodes
RingWellFormed ==
    \A i \in Nodes : rg.m.prev[rg.m.next[i]] = i /\ rg.m.next[rg.m.prev[i]] = i

C17_PutTwice ==
    [][(/\ lastOp.op = "Put"
        /\ lastOp'.op = "Put"
        /\ Len(lastOp.srcs) = 1
        /\ lastOp'.srcs = lastOp.srcs)
          => /\ Range(protected') = Range(protected)
             /\ underPolicy' = underPolicy]_vars

\* C18: Func(name) = true means the source is to be blocked: after Put, a
\* source for which some policy's Func is true is under policy, and a source
\* for which every policy's Func is false is in the protected store; after
\* AddPolicy(p), no protected source has p.Func true.
C18_FuncBlocks ==
    /\ lastOp.op = "Put" =>
          \A s \in Range(lastOp.srcs) :
              IF \E i \in 1..Len(pre.Policies) : pre.Policies[i].Func[s]
              THEN s \in Kept(underPolicy)
              ELSE s \in Range(protected)
    /\ lastOp.op = "AddPolicy" =>
          \A s \in Range(protected) : ~lastOp.p.Func[s]

\* every underPolicy entry is tagged with a policy of the policy list
TagsListed ==
    \A i \in 1..Len(underPolicy) :
        \E j \in 1..Len(Policies) : Policies[j] = underPolicy[i].Policy

\* With the calls run one at a time AddPolicy and DelPolicy leave the set of
\* held sources as it was, only Put and Del change it, and the tags are listed.
PolicyMutationsKeepSources ==
    /\ lastOp.op \in {"AddPolicy", "DelPolicy"} => Held(cur) = Held(pre)
    /\ Held(cur) # Held(pre) => lastOp.op \in {"Put", "Del"}
    /\ TagsListed

\* C21: policy mutations never lose or create sources, and every underPolicy
\* entry is always tagged with a policy that is still in the policy list;
\* here for the store two workers have called into, once both calls returned.
C21_TagsListed == AllDone => TagsListed

TypeOK ==
    /\ Range(protected) \subseteq SourceNames
    /\ Len(Policies) <= MaxPolicies
    /\ Len(underPolicy) <= MaxUnder
====
